---- MODULE Spec2Model ----
(***************************************************************************)
(* A model of main.py, the static-site build script of bpmclock:           *)
(* setup_jinja_env, ensure_build_dirs, copy_static_assets, render_template *)
(* and build_site, over an explicit filesystem.                            *)
(*                                                                         *)
(* The filesystem is a function from paths (sequences of path components)  *)
(* to nodes.  A node is absent, a directory, or a regular file holding a   *)
(* sequence of tokens (its bytes).                                         *)
(***************************************************************************)
EXTENDS Naturals, Sequences, FiniteSets

VARIABLES
    fs,       \* the filesystem: [Paths -> Node]
    pc,       \* position of the running build
    todo,     \* entries of the directory listing the current loop has not visited
    err,      \* the exception that ended the current run, or "none"
    run,      \* number of the current invocation of the script
    steps,    \* the functions build_site has called in this run, in order
    copied,   \* <<category, name>> of every "Copied ..." line printed in this run
    banner,   \* whether this run printed the "Build complete!" banner
    clean,    \* no transient I/O fault (permission, disk full) hit this run
    prev,     \* how the previous run ended: "none", "ok" or "failed"
    fsRun,    \* the filesystem when the current run started
    fs0,      \* the filesystem when the first run started
    failedAt, \* <<position, entry>> at which the exception of this run was raised
    ensured   \* ensure_build_dirs has returned normally on this tree before

vars ==
    <<fs, pc, todo, err, run, steps, copied, banner, clean, prev, fsRun, fs0,
      failedAt, ensured>>

----------------------------------------------------------------------------
(* Bounds of the model *)

\* number of successive invocations of the script that are explored
MaxRuns == 2
\* number of entries the source static tree holds in the copy-only specifications
MaxEntries == 2

\* file names that may occur in a source or destination directory
Names == {"a.js", "b.js", "c.jsx", "f.woff2"}

\* the spelling of each name, for pattern matching
Chars(n) ==
    CASE n = "a.js"    -> <<"a", ".", "j", "s">>
      [] n = "b.js"    -> <<"b", ".", "j", "s">>
      [] n = "c.jsx"   -> <<"c", ".", "j", "s", "x">>
      [] n = "f.woff2" -> <<"f", ".", "w", "o", "f", "f", "2">>
      [] n = ".js"     -> <<".", "j", "s">>
      [] n = ".woff2"  -> <<".", "w", "o", "f", "f", "2">>

----------------------------------------------------------------------------
(* Nodes and paths *)

Absent == [k |-> "absent", d |-> <<>>]
Dir == [k |-> "dir", d |-> <<>>]
File(data) == [k |-> "file", d |-> data]

\* content of a file that is in the output tree before the first build
OldData == <<"old">>

Cats == {"js", "fonts", "images"}

\* Path(__file__).parent / "build" and below
BuildDir == <<"build">>
StaticDir == <<"build", "static">>
CssDir == <<"build", "static", "css">>
IndexPath == <<"build", "index.html">>
\* a variant in which the images go where the scripts go
DestDir_Shared(c) == <<"build", "static", IF c = "images" THEN "js" ELSE c>>

\* js_dest, fonts_dest, img_dest
DestDir(c) == <<"build", "static", c>>
\* js_src, fonts_src, img_src
SrcDir(c) == <<"src", "static", c>>
\* the file get_template("index.html") resolves to under src/templates
TemplatePath == <<"src", "templates", "index.html">>

Parent(p) == SubSeq(p, 1, Len(p) - 1)

SkelPaths == {BuildDir, StaticDir, CssDir} \cup {DestDir(c) : c \in Cats}
DestEntryPaths == {Append(DestDir(c), n) : c \in Cats, n \in Names}
NestedPaths == {Append(p, p[Len(p)]) : p \in DestEntryPaths}
SrcEntryPaths == {Append(SrcDir(c), n) : c \in Cats, n \in Names}
SrcPaths == {SrcDir(c) : c \in Cats} \cup SrcEntryPaths \cup {TemplatePath}
OutPaths == SkelPaths \cup DestEntryPaths \cup NestedPaths \cup {IndexPath}
Paths == SrcPaths \cup OutPaths

\* bytes of the source file at src/static/<c>/<n>: distinct for distinct files
SrcData(c, n) == <<c, n>>

Ok(f) == [fs |-> f, err |-> "none"]
Raise(f, e) == [fs |-> f, err |-> e]

----------------------------------------------------------------------------
(* pathlib.Path.mkdir, as ensure_build_dirs uses it *)

\* os.mkdir(p); denied: the directory may not be created (EACCES)
OsMkdir(f, p, denied) ==
    IF Len(p) > 1 /\ f[Parent(p)].k = "absent" THEN Raise(f, "FileNotFoundError")
    ELSE IF Len(p) > 1 /\ f[Parent(p)].k = "file" THEN Raise(f, "NotADirectoryError")
    ELSE IF f[p].k # "absent" THEN Raise(f, "FileExistsError")
    ELSE IF denied THEN Raise(f, "PermissionError")
    ELSE Ok([f EXCEPT ![p] = Dir])

RECURSIVE PathMkdir(_, _, _, _, _)
PathMkdir(f, p, parents, exist_ok, denied) ==
    LET r == OsMkdir(f, p, denied) IN
    IF r.err = "none" THEN r
    ELSE IF r.err = "FileNotFoundError" THEN
        IF ~parents \/ Len(p) = 1 THEN r
        ELSE LET q == PathMkdir(f, Parent(p), TRUE, TRUE, denied) IN
             IF q.err # "none" THEN q
             ELSE PathMkdir(q.fs, p, FALSE, exist_ok, denied)
    ELSE IF ~exist_ok \/ f[p].k # "dir" THEN r
    ELSE Ok(f)

\* the five mkdir calls of ensure_build_dirs, in order
MkdirCalls ==
    << [p |-> BuildDir, parents |-> FALSE],
       [p |-> CssDir, parents |-> TRUE],
       [p |-> DestDir("js"), parents |-> TRUE],
       [p |-> DestDir("images"), parents |-> TRUE],
       [p |-> DestDir("fonts"), parents |-> TRUE] >>

\* a variant that leaves exist_ok at its default, False
MkdirCall_NoExistOk(f, c, denied) == PathMkdir(f, c.p, c.parents, FALSE, denied)

\* one call: .mkdir(exist_ok=True) / .mkdir(parents=True, exist_ok=True)
MkdirCall(f, c, denied) == PathMkdir(f, c.p, c.parents, TRUE, denied)

\* calls i.. of ensure_build_dirs; call number failAt is denied creation
RECURSIVE RunMkdirs(_, _, _)
RunMkdirs(f, i, failAt) ==
    IF i > Len(MkdirCalls) THEN Ok(f)
    ELSE LET r == MkdirCall(f, MkdirCalls[i], i = failAt)
         IN IF r.err # "none" THEN r ELSE RunMkdirs(r.fs, i + 1, failAt)

\* a variant that catches and drops the exception of a failed mkdir
EnsureBuildDirsFS_Swallow(f, failAt) == Ok(RunMkdirs(f, 1, failAt).fs)

\* ensure_build_dirs()
EnsureBuildDirsFS(f, failAt) == RunMkdirs(f, 1, failAt)

----------------------------------------------------------------------------
(* copy_static_assets: directory listings, patterns, shutil.copy2 *)

\* the literal text that follows the "*" of a pattern
Literal(pat) ==
    CASE pat = "*.js"    -> Chars(".js")
      [] pat = "*.woff2" -> Chars(".woff2")

\* a variant that accepts the literal anywhere in the name
Matches_Anywhere(n, pat) ==
    LET s == Chars(n)
        l == Literal(pat)
    IN \E i \in 1 .. Len(s) :
        i + Len(l) - 1 <= Len(s) /\ SubSeq(s, i, i + Len(l) - 1) = l

\* fnmatch of a name against "*<literal>": the name ends with the literal
Matches(n, pat) ==
    LET s == Chars(n)
        l == Literal(pat)
    IN Len(s) >= Len(l) /\ SubSeq(s, Len(s) - Len(l) + 1, Len(s)) = l

\* Path.exists()
Exists(f, p) == f[p].k # "absent"

\* the names a directory lists
Listing(f, dir) == {n \in Names : Exists(f, Append(dir, n))}

\* Path.glob(pat): nothing when the path is not a directory
Glob(f, dir, pat) ==
    IF f[dir].k # "dir" THEN {} ELSE {n \in Listing(f, dir) : Matches(n, pat)}

Pattern(c) == IF c = "js" THEN "*.js" ELSE "*.woff2"

\* a variant that lists the images directory without asking whether it exists
Scan_NoExistsCheck(f, c) ==
    IF c \in {"js", "fonts"} THEN
        [names |-> IF Exists(f, SrcDir(c)) THEN Glob(f, SrcDir(c), Pattern(c)) ELSE {},
         err |-> "none"]
    ELSE
        IF ~Exists(f, SrcDir(c)) THEN [names |-> {}, err |-> "FileNotFoundError"]
        ELSE IF f[SrcDir(c)].k = "file" THEN [names |-> {}, err |-> "NotADirectoryError"]
        ELSE [names |-> Listing(f, SrcDir(c)), err |-> "none"]

\* what the loop of category c iterates over, or the exception of its guard
Scan(f, c) ==
    IF c \in {"js", "fonts"} THEN
        \* if js_src.exists(): for js_file in js_src.glob("*.js")
        [names |-> IF Exists(f, SrcDir(c)) THEN Glob(f, SrcDir(c), Pattern(c)) ELSE {},
         err |-> "none"]
    ELSE
        \* if img_src.exists() and any(img_src.iterdir()): for img_file in img_src.iterdir()
        IF ~Exists(f, SrcDir(c)) THEN [names |-> {}, err |-> "none"]
        ELSE IF f[SrcDir(c)].k = "file" THEN [names |-> {}, err |-> "NotADirectoryError"]
        ELSE [names |-> Listing(f, SrcDir(c)), err |-> "none"]

\* the ways one I/O operation may fail for a reason outside the two trees
NoFault == [kind |-> "none", cut |-> 0]
ReadFault == [kind |-> "read", cut |-> 0]
OpenFault == [kind |-> "open", cut |-> 0]
WriteFault(k) == [kind |-> "write", cut |-> k]

\* open(p, "w") / open(p, "wb"): the exception, or "none"
OpenForWrite(f, p) ==
    IF f[Parent(p)].k = "absent" THEN "FileNotFoundError"
    ELSE IF f[Parent(p)].k = "file" THEN "NotADirectoryError"
    ELSE IF f[p].k = "dir" THEN "IsADirectoryError"
    ELSE "none"

\* a variant that opens the file for appending instead of truncating it
Written_Append(f, p, data, fault) ==
    IF fault.kind = "write"
    THEN Raise([f EXCEPT ![p] = File(f[p].d \o SubSeq(data, 1, fault.cut))], "OSError")
    ELSE Ok([f EXCEPT ![p] = File(f[p].d \o data)])

\* the file p after data was written to it from the start, all of it or,
\* when the write fails, its first cut tokens
Written(f, p, data, fault) ==
    IF fault.kind = "write"
    THEN Raise([f EXCEPT ![p] = File(SubSeq(data, 1, fault.cut))], "OSError")
    ELSE Ok([f EXCEPT ![p] = File(data)])

\* a variant that refuses to overwrite a file that is already there
Copy2_Exclusive(f, src, dst, fault) ==
    LET target == IF f[dst].k = "dir" THEN Append(dst, src[Len(src)]) ELSE dst
    IN IF f[src].k = "absent" THEN Raise(f, "FileNotFoundError")
       ELSE IF f[src].k = "dir" THEN Raise(f, "IsADirectoryError")
       ELSE IF fault.kind = "read" THEN Raise(f, "PermissionError")
       ELSE IF OpenForWrite(f, target) # "none" THEN Raise(f, OpenForWrite(f, target))
       ELSE IF f[target].k = "file" THEN Raise(f, "FileExistsError")
       ELSE Written(f, target, f[src].d, fault)

\* shutil.copy2(src, dst): into dst when dst is a directory
Copy2(f, src, dst, fault) ==
    LET target == IF f[dst].k = "dir" THEN Append(dst, src[Len(src)]) ELSE dst
    IN IF f[src].k = "absent" THEN Raise(f, "FileNotFoundError")
       ELSE IF f[src].k = "dir" THEN Raise(f, "IsADirectoryError")
       ELSE IF fault.kind = "read" THEN Raise(f, "PermissionError")
       ELSE IF OpenForWrite(f, target) # "none" THEN Raise(f, OpenForWrite(f, target))
       ELSE Written(f, target, f[src].d, fault)

\* a variant that leaves alone a destination that is already there
CopyEntry_SkipExisting(f, c, n, fault) ==
    LET src == Append(SrcDir(c), n)
        dst == Append(DestDir(c), n)
    IN IF (c = "images" /\ f[src].k # "file") \/ Exists(f, dst)
       THEN [fs |-> f, err |-> "none", copied |-> {}]
       ELSE LET r == Copy2(f, src, dst, fault)
            IN [fs |-> r.fs, err |-> r.err,
                copied |-> IF r.err = "none" THEN {<<c, n>>} ELSE {}]

\* the body of the loop of category c for the entry n
CopyEntry(f, c, n, fault) ==
    LET src == Append(SrcDir(c), n)
        dst == Append(DestDir(c), n)
    IN IF c = "images" /\ f[src].k # "file"
       THEN [fs |-> f, err |-> "none", copied |-> {}]
       ELSE LET r == Copy2(f, src, dst, fault)
            IN [fs |-> r.fs, err |-> r.err,
                copied |-> IF r.err = "none" THEN {<<c, n>>} ELSE {}]

\* the faults that can hit the copy of entry n of category c
CopyFaults(f, c, n) ==
    LET src == Append(SrcDir(c), n)
    IN {NoFault, ReadFault}
       \cup {WriteFault(k) : k \in 0 .. (Len(f[src].d) - 1)}

----------------------------------------------------------------------------
(* render_template and the template engine *)

\* the context build_site passes
Context == [title |-> "Tap Tempo Perfectionist - Rhythm Training",
            description |-> "Train your rhythm with PID controller feedback."]

\* a template that interpolates both keys, and one whose expression raises
GoodTemplate == <<"<h1>", "{{ title }}", "{{ description }}">>
BadTemplate == <<"<h1>", "{{ title }}", "{{ author.name }}">>

\* evaluation of one token of a template
Raises(tok) == tok = "{{ author.name }}"
Eval(tok, ctx) ==
    CASE tok = "{{ title }}"       -> ctx.title
      [] tok = "{{ description }}" -> ctx.description
      [] OTHER                     -> tok

\* template.render(**context)
RenderText(tmpl, ctx) == [i \in 1 .. Len(tmpl) |-> Eval(tmpl[i], ctx)]

\* a variant that opens the output file before the template is looked up
RenderTemplate_OpenFirst(f, tmpl, out, ctx, fault) ==
    IF OpenForWrite(f, out) # "none" THEN Raise(f, OpenForWrite(f, out))
    ELSE IF fault.kind = "open" THEN Raise(f, "PermissionError")
    ELSE LET g == [f EXCEPT ![out] = File(<<>>)] IN
         IF f[tmpl].k # "file" THEN Raise(g, "TemplateNotFound")
         ELSE IF \E i \in 1 .. Len(f[tmpl].d) : Raises(f[tmpl].d[i])
              THEN Raise(g, "UndefinedError")
         ELSE Written(g, out, RenderText(f[tmpl].d, ctx), fault)

\* render_template(env, template_name, output_path, context)
RenderTemplate(f, tmpl, out, ctx, fault) ==
    IF f[tmpl].k # "file" THEN Raise(f, "TemplateNotFound")
    ELSE IF \E i \in 1 .. Len(f[tmpl].d) : Raises(f[tmpl].d[i])
         THEN Raise(f, "UndefinedError")
    ELSE IF OpenForWrite(f, out) # "none" THEN Raise(f, OpenForWrite(f, out))
    ELSE IF fault.kind = "open" THEN Raise(f, "PermissionError")
    ELSE Written(f, out, RenderText(f[tmpl].d, ctx), fault)

\* the faults that can hit the write of the page
RenderFaults(f, tmpl) ==
    {NoFault, OpenFault}
    \cup {WriteFault(k) : k \in 0 .. (Len(f[tmpl].d) - 1)}

----------------------------------------------------------------------------
(* The functions as wholes, run without a transient fault: what one call  *)
(* makes of a filesystem.  Entries of one listing are visited in some     *)
(* order; the order chosen here is arbitrary.                             *)

RECURSIVE CopyAll(_, _, _)
CopyAll(f, c, names) ==
    IF names = {} THEN Ok(f)
    ELSE LET n == CHOOSE x \in names : TRUE
             r == CopyEntry(f, c, n, NoFault)
         IN IF r.err # "none" THEN Raise(r.fs, r.err)
            ELSE CopyAll(r.fs, c, names \ {n})

CopyCategoryFS(f, c) ==
    IF Scan(f, c).err # "none" THEN Raise(f, Scan(f, c).err)
    ELSE CopyAll(f, c, Scan(f, c).names)

\* copy_static_assets(): JavaScript files, then fonts, then images
CopyStaticAssetsFS(f) ==
    LET j == CopyCategoryFS(f, "js") IN
    IF j.err # "none" THEN j
    ELSE LET w == CopyCategoryFS(j.fs, "fonts") IN
         IF w.err # "none" THEN w
         ELSE CopyCategoryFS(w.fs, "images")

\* build_site()
BuildSiteFS(f) ==
    LET e == EnsureBuildDirsFS(f, 0) IN
    IF e.err # "none" THEN e
    ELSE LET c == CopyStaticAssetsFS(e.fs) IN
         IF c.err # "none" THEN c
         ELSE RenderTemplate(c.fs, TemplatePath, IndexPath, Context, NoFault)

----------------------------------------------------------------------------
(* Initial filesystems *)

NodeOf(kind, data) ==
    IF kind = "dir" THEN Dir ELSE IF kind = "file" THEN File(data) ELSE Absent

\* output skeletons: build, build/static and the four subdirectories, each
\* absent, a directory, or a regular file, with nothing below a non-directory
Skeletons ==
    {s \in [SkelPaths -> {"absent", "dir", "file"}] :
        \A p \in SkelPaths : Len(p) > 1 /\ s[p] # "absent" => s[Parent(p)] = "dir"}

FreshSkeleton == [p \in SkelPaths |-> "absent"]
ProvisionedSkeleton == [p \in SkelPaths |-> "dir"]

\* what the destination directories hold before the build: nothing, an older
\* file under every name, an empty directory under every name, such a
\* directory holding an older file of the same name, or holding a directory of
\* the same name
DestScenarios == {"fresh", "stale", "dirs", "dirs_stale", "blocked"}

KindsOfIndex == {"absent", "file", "dir"}
Templates == {Absent, File(GoodTemplate), File(BadTemplate)}

\* source static trees: the state of the three source directories and the
\* kinds of their entries
SrcTrees(E) ==
    {[cats |-> cs, ents |-> ks] :
        cs \in {x \in [Cats -> {"absent", "file", "dir"}] :
                    \A e \in E : x[e[1]] = "dir"},
        ks \in [E -> {"file", "dir"}]}

EntrySets(maxN) == {E \in SUBSET (Cats \X Names) : Cardinality(E) <= maxN}

\* the source tree of a typical project: two scripts, a font, no images
TypicalTree ==
    [cats |-> [c \in Cats |-> IF c = "images" THEN "absent" ELSE "dir"],
     ents |-> [e \in {<<"js", "a.js">>, <<"js", "b.js">>, <<"fonts", "f.woff2">>}
                  |-> "file"]]

\* source trees the full build is explored on
BuildTrees ==
    {TypicalTree,
     [cats |-> [c \in Cats |-> "absent"], ents |-> <<>>],
     [cats |-> [c \in Cats |-> IF c = "images" THEN "dir" ELSE "absent"],
      ents |-> [e \in {<<"images", "a.js">>, <<"images", "f.woff2">>}
                   |-> IF e[2] = "a.js" THEN "file" ELSE "dir"]],
     [cats |-> [c \in Cats |-> IF c = "js" THEN "dir" ELSE "file"],
      ents |-> [e \in {<<"js", "b.js">>} |-> "dir"]]}

MakeFs(sk, scen, ix, tmpl, tree) ==
    [p \in Paths |->
        IF p \in SkelPaths THEN NodeOf(sk[p], OldData)
        ELSE IF p = IndexPath
            THEN IF sk[BuildDir] = "dir" THEN NodeOf(ix, OldData) ELSE Absent
        ELSE IF p \in DestEntryPaths
            THEN IF sk[Parent(p)] # "dir" \/ scen = "fresh" THEN Absent
                 ELSE IF scen = "stale" THEN File(OldData) ELSE Dir
        ELSE IF p \in NestedPaths
            THEN IF sk[Parent(Parent(p))] # "dir" THEN Absent
                 ELSE IF scen = "blocked" THEN Dir
                 ELSE IF scen = "dirs_stale" THEN File(OldData)
                 ELSE Absent
        ELSE IF p = TemplatePath THEN tmpl
        ELSE IF Len(p) = 3 THEN NodeOf(tree.cats[p[3]], OldData)
        ELSE IF <<p[3], p[4]>> \in DOMAIN tree.ents
            THEN NodeOf(tree.ents[<<p[3], p[4]>>], SrcData(p[3], p[4]))
        ELSE Absent]

\* the variables of a run when it starts
RunStart ==
    /\ todo = {}
    /\ err = "none"
    /\ steps = <<>>
    /\ copied = {}
    /\ banner = FALSE
    /\ clean = TRUE
    /\ failedAt = <<"", "">>

\* the script is started on some output tree and some source tree
Init ==
    /\ \/ \E sk \in Skeletons, scen \in DestScenarios :
            fs = MakeFs(sk, scen, "absent", File(GoodTemplate), TypicalTree)
       \/ \E scen \in DestScenarios, ix \in KindsOfIndex, tmpl \in Templates,
             tree \in BuildTrees :
            fs = MakeFs(ProvisionedSkeleton, scen, ix, tmpl, tree)
    /\ pc = "setup"
    /\ run = 1
    /\ RunStart
    /\ prev = "none"
    /\ fsRun = fs
    /\ fs0 = fs
    /\ ensured = FALSE

----------------------------------------------------------------------------
(* build_site, step by step *)

Fail(e, n) ==
    /\ pc' = "failed"
    /\ err' = e
    /\ failedAt' = <<pc, n>>

\* env = setup_jinja_env(): builds the environment, touches no file
SetupJinjaEnv ==
    /\ pc = "setup"
    /\ steps' = Append(steps, "setup_jinja_env")
    /\ pc' = "ensure"
    /\ UNCHANGED <<fs, todo, err, run, copied, banner, clean, prev, fsRun, fs0,
                   failedAt, ensured>>

\* build_dir = ensure_build_dirs()
EnsureBuildDirs ==
    /\ pc = "ensure"
    /\ steps' = Append(steps, "ensure_build_dirs")
    /\ \E failAt \in 0 .. Len(MkdirCalls) :
        LET r == EnsureBuildDirsFS(fs, failAt) IN
        /\ fs' = r.fs
        /\ clean' = (clean /\ r = EnsureBuildDirsFS(fs, 0))
        /\ IF r.err = "none"
           THEN pc' = "js" /\ err' = err /\ failedAt' = failedAt /\ ensured' = TRUE
           ELSE Fail(r.err, "") /\ ensured' = ensured
    /\ UNCHANGED <<todo, run, copied, banner, prev, fsRun, fs0>>

LoopOf(c) == IF c = "js" THEN "js_loop" ELSE IF c = "fonts" THEN "fonts_loop" ELSE "images_loop"
AfterCat(c) == IF c = "js" THEN "fonts" ELSE IF c = "fonts" THEN "images" ELSE "render"

\* the guard of the block of category c, and the listing its loop will walk
ScanStep(c) ==
    /\ pc = c
    /\ steps' = IF c = "js" THEN Append(steps, "copy_static_assets") ELSE steps
    /\ LET s == Scan(fs, c) IN
       IF s.err # "none"
       THEN Fail(s.err, "") /\ todo' = todo
       ELSE /\ todo' = s.names
            /\ pc' = IF s.names = {} THEN AfterCat(c) ELSE LoopOf(c)
            /\ err' = err
            /\ failedAt' = failedAt
    /\ UNCHANGED <<fs, run, copied, banner, clean, prev, fsRun, fs0, ensured>>

\* a variant whose loop body catches the exception of a copy, reports it and
\* goes on with the next entry
CopyStep_CatchAndContinue(c) ==
    /\ pc = LoopOf(c)
    /\ \E n \in todo : \E fault \in CopyFaults(fs, c, n) :
        LET r == CopyEntry(fs, c, n, fault) IN
        /\ fs' = r.fs
        /\ copied' = copied \cup r.copied
        /\ clean' = (clean /\ r = CopyEntry(fs, c, n, NoFault))
        /\ todo' = todo \ {n}
        /\ pc' = IF todo' = {} THEN AfterCat(c) ELSE LoopOf(c)
        /\ err' = IF r.err # "none" THEN r.err ELSE err
        /\ failedAt' = IF r.err # "none" THEN <<pc, n>> ELSE failedAt
    /\ UNCHANGED <<run, steps, banner, prev, fsRun, fs0, ensured>>

\* one iteration of the loop of category c, on any entry not yet visited
CopyStep(c) ==
    /\ pc = LoopOf(c)
    /\ \E n \in todo : \E fault \in CopyFaults(fs, c, n) :
        LET r == CopyEntry(fs, c, n, fault) IN
        /\ fs' = r.fs
        /\ copied' = copied \cup r.copied
        /\ clean' = (clean /\ r = CopyEntry(fs, c, n, NoFault))
        /\ IF r.err # "none"
           THEN Fail(r.err, n) /\ todo' = todo
           ELSE /\ todo' = todo \ {n}
                /\ pc' = IF todo' = {} THEN AfterCat(c) ELSE LoopOf(c)
                /\ err' = err
                /\ failedAt' = failedAt
    /\ UNCHANGED <<run, steps, banner, prev, fsRun, fs0, ensured>>

JsScan ==
    /\ pc = "js"
    /\ ScanStep("js")
JsCopy ==
    /\ pc = "js_loop"
    /\ CopyStep("js")
FontsScan ==
    /\ pc = "fonts"
    /\ ScanStep("fonts")
FontsCopy ==
    /\ pc = "fonts_loop"
    /\ CopyStep("fonts")
ImagesScan ==
    /\ pc = "images"
    /\ ScanStep("images")
ImagesCopy ==
    /\ pc = "images_loop"
    /\ CopyStep("images")

\* render_template(env, "index.html", build_dir / "index.html", context) and
\* the success banner
RenderIndex ==
    /\ pc = "render"
    /\ steps' = Append(steps, "render_template")
    /\ \E fault \in RenderFaults(fs, TemplatePath) :
        LET r == RenderTemplate(fs, TemplatePath, IndexPath, Context, fault) IN
        /\ fs' = r.fs
        /\ clean' = (clean /\ r = RenderTemplate(fs, TemplatePath, IndexPath, Context, NoFault))
        /\ IF r.err # "none"
           THEN Fail(r.err, "") /\ banner' = banner
           ELSE pc' = "done" /\ banner' = TRUE /\ err' = err /\ failedAt' = failedAt
    /\ UNCHANGED <<todo, run, copied, prev, fsRun, fs0, ensured>>

\* the script is invoked again on the tree the last run left
Rerun ==
    /\ pc \in {"done", "failed"}
    /\ run < MaxRuns
    /\ pc' = "setup"
    /\ todo' = {}
    /\ err' = "none"
    /\ run' = run + 1
    /\ steps' = <<>>
    /\ copied' = {}
    /\ banner' = FALSE
    /\ clean' = TRUE
    /\ failedAt' = <<"", "">>
    /\ prev' = IF pc = "done" THEN "ok" ELSE "failed"
    /\ fsRun' = fs
    /\ UNCHANGED <<fs, fs0, ensured>>

Next ==
    \/ SetupJinjaEnv
    \/ EnsureBuildDirs
    \/ JsScan
    \/ JsCopy
    \/ FontsScan
    \/ FontsCopy
    \/ ImagesScan
    \/ ImagesCopy
    \/ RenderIndex
    \/ Rerun

Spec == Init /\ [][Next]_vars

----------------------------------------------------------------------------
(* copy_static_assets alone, called as build_site calls it: on a          *)
(* provisioned output tree, over every source tree of at most MaxEntries  *)
(* entries                                                                *)

InitCopy ==
    /\ \E E \in EntrySets(MaxEntries) : \E tree \in SrcTrees(E) :
       \E scen \in DestScenarios :
            fs = MakeFs(ProvisionedSkeleton, scen, "absent", File(GoodTemplate), tree)
    /\ pc = "js"
    /\ run = 1
    /\ RunStart
    /\ prev = "none"
    /\ fsRun = fs
    /\ fs0 = fs
    /\ ensured = FALSE

NextCopy ==
    \/ JsScan
    \/ JsCopy
    \/ FontsScan
    \/ FontsCopy
    \/ ImagesScan
    \/ ImagesCopy

SpecCopy == InitCopy /\ [][NextCopy]_vars

----------------------------------------------------------------------------
(* The same file copies with the fixed order of the categories dropped:   *)
(* every category lists its source first, then the copies of all          *)
(* categories run in any order.  todo holds <<category, name>> pairs.     *)

InitPar ==
    /\ \E E \in EntrySets(MaxEntries) : \E tree \in SrcTrees(E) :
       \E scen \in DestScenarios :
            fs = MakeFs(ProvisionedSkeleton, scen, "absent", File(GoodTemplate), tree)
    /\ pc = "par_scan"
    /\ run = 1
    /\ RunStart
    /\ prev = "none"
    /\ fsRun = fs
    /\ fs0 = fs
    /\ ensured = FALSE

ParScan ==
    /\ pc = "par_scan"
    /\ steps' = Append(steps, "copy_static_assets")
    /\ IF \E c \in Cats : Scan(fs, c).err # "none"
       THEN /\ Fail(Scan(fs, CHOOSE c \in Cats : Scan(fs, c).err # "none").err, "")
            /\ todo' = todo
       ELSE /\ todo' = {<<c, n>> : c \in Cats, n \in Names} \cap
                       {t \in Cats \X Names : t[2] \in Scan(fs, t[1]).names}
            /\ pc' = IF todo' = {} THEN "par_done" ELSE "par_loop"
            /\ err' = err
            /\ failedAt' = failedAt
    /\ UNCHANGED <<fs, run, copied, banner, clean, prev, fsRun, fs0, ensured>>

ParCopy ==
    /\ pc = "par_loop"
    /\ \E t \in todo :
        LET r == CopyEntry(fs, t[1], t[2], NoFault) IN
        /\ fs' = r.fs
        /\ copied' = copied \cup r.copied
        /\ IF r.err # "none"
           THEN Fail(r.err, t[2]) /\ todo' = todo
           ELSE /\ todo' = todo \ {t}
                /\ pc' = IF todo' = {} THEN "par_done" ELSE "par_loop"
                /\ err' = err
                /\ failedAt' = failedAt
    /\ UNCHANGED <<run, steps, banner, clean, prev, fsRun, fs0, ensured>>

NextPar ==
    \/ ParScan
    \/ ParCopy

SpecPar == InitPar /\ [][NextPar]_vars

----------------------------------------------------------------------------
(* Properties of the full build (specification Spec) *)

OutputDirs == {CssDir} \cup {DestDir(c) : c \in Cats}
CopyPositions == {"js", "js_loop", "fonts", "fonts_loop", "images", "images_loop"}
AllSteps ==
    <<"setup_jinja_env", "ensure_build_dirs", "copy_static_assets", "render_template">>

\* C1: whenever a copy or the render is about to be attempted, the four
\* directories build/static/{css,js,images,fonts} all exist.
C1_DirsExistBeforeCopyAndRender ==
    pc \in CopyPositions \cup {"render"} =>
        \A d \in OutputDirs : fs[d].k = "dir"

\* the render is about to be attempted, after copies, in a run that started
\* without any output tree
C1_Witness ==
    /\ pc = "render"
    /\ copied # {}
    /\ fsRun[BuildDir].k = "absent"

\* C2: on every tree on which ensure_build_dirs has succeeded once, a further
\* call (even one that could create nothing) succeeds and changes nothing:
\* the six directories are there and every node is what it was.
C2_EnsureIdempotent ==
    ensured =>
        /\ \A d \in OutputDirs \cup {BuildDir, StaticDir} : fs[d].k = "dir"
        /\ \A failAt \in 0 .. Len(MkdirCalls) : EnsureBuildDirsFS(fs, failAt) = Ok(fs)

\* the second run has just called ensure_build_dirs again, on a tree that the
\* first run created and filled
C2_Witness ==
    /\ run = 2
    /\ pc = "js"
    /\ fs0[BuildDir].k = "absent"
    /\ fs[Append(DestDir("js"), "a.js")].k = "file"
    /\ fs = fsRun

IsPrefix(s, t) == Len(s) <= Len(t) /\ s = SubSeq(t, 1, Len(s))

\* what holds of the steps, the exception and the banner in every state of a run
C5_State ==
    /\ IsPrefix(steps, AllSteps)
    /\ pc = "failed" => err # "none" /\ ~banner /\ failedAt[1] # ""
    /\ err # "none" => pc = "failed"
    /\ banner => pc = "done" /\ err = "none" /\ steps = AllSteps
    /\ pc = "failed" /\ failedAt[1] = "ensure" => Len(steps) = 2 /\ copied = {}
    /\ pc = "failed" /\ failedAt[1] \in CopyPositions => Len(steps) = 3

\* C5: the steps of a run are a prefix of setup, provisioning, copy, render; a
\* failed run carries its exception to the caller and never prints the
\* banner; the banner is printed only after all four steps without an
\* exception; the step that raises leaves the loop where it is; and once a
\* run has failed nothing more happens in that run.
C5_FailFast ==
    /\ []C5_State
    /\ [][pc = "failed" /\ run' = run =>
            UNCHANGED <<fs, steps, copied, banner, err, pc>>]_vars
    /\ [][err' # "none" /\ run' = run /\ pc # "failed" => todo' = todo /\ copied' = copied]_vars

\* a run failed in the middle of the copies, after a first copy
C5_Witness ==
    /\ pc = "failed"
    /\ failedAt[1] = "js_loop"
    /\ copied # {}

TemplateErrors == {"TemplateNotFound", "UndefinedError"}

\* a run that ended in a template error failed in the render, with index.html
\* as the run found it
C6_State ==
    pc = "failed" /\ err \in TemplateErrors =>
        /\ fs[IndexPath] = fsRun[IndexPath]
        /\ failedAt[1] = "render"

\* C6: when the run ends in a template lookup or rendering error, index.html
\* is what it was when the run started (absent stays absent, an old file keeps
\* its content), and the render step that raised changed no node at all.
C6_RenderErrorKeepsOutput ==
    /\ []C6_State
    /\ [][pc = "render" /\ err' \in TemplateErrors => fs' = fs]_vars

\* rendering raised while an older index.html was in place
C6_Witness ==
    /\ pc = "failed"
    /\ err = "UndefinedError"
    /\ fs[IndexPath] = File(OldData)


Landing(f, c, n) ==
    IF f[Append(DestDir(c), n)].k = "dir"
    THEN Append(Append(DestDir(c), n), n)
    ELSE Append(DestDir(c), n)

C8_WitnessPartialCopy ==
    /\ prev = "failed"
    /\ pc = "done"
    /\ \E c \in Cats, n \in Names :
        /\ fsRun[Append(DestDir(c), n)].k = "file"
        /\ fsRun[Append(DestDir(c), n)].d # SrcData(c, n)
        /\ fs0[Append(DestDir(c), n)].k = "absent"


----------------------------------------------------------------------------
(* Properties of copy_static_assets (specifications SpecCopy and SpecPar) *)

\* the names of the model that end in .js, and those that end in .woff2
JsNames == {"a.js", "b.js"}
Woff2Names == {"f.woff2"}

SrcEntry(f, c, n) == f[Append(SrcDir(c), n)]
DestEntry(f, c, n) == f[Append(DestDir(c), n)]
NestedEntry(f, c, n) == f[Append(Append(DestDir(c), n), n)]

\* the entries of the source directory of category c that qualify for a copy
Qualifying(f, c) ==
    IF c = "js" THEN {n \in JsNames : SrcEntry(f, c, n).k # "absent"}
    ELSE IF c = "fonts" THEN {n \in Woff2Names : SrcEntry(f, c, n).k # "absent"}
    ELSE {n \in Names : SrcEntry(f, c, n).k = "file"}

\* src/static/js is a directory whose .js entries are all regular files
JsFilesOnly(f) ==
    /\ f[SrcDir("js")].k = "dir"
    /\ \A n \in JsNames : SrcEntry(f, "js", n).k # "dir"

\* copy_static_assets has returned normally
Copied == pc = "render"

\* C3 as stated: when src/static/js holds some .js files, after
\* copy_static_assets build/static/js holds exactly those files, each with the
\* content of its source, and nothing else.
C3_ExactlyTheSources ==
    Copied /\ JsFilesOnly(fs0) /\ Qualifying(fs0, "js") # {} =>
        /\ Listing(fs, DestDir("js")) = Qualifying(fs0, "js")
        /\ \A n \in Qualifying(fs0, "js") :
            DestEntry(fs, "js", n) = File(SrcData("js", n))

\* C3, amended: after copy_static_assets every .js file of src/static/js is
\* in build/static/js with the content of its source, under its name (inside
\* the directory of that name, when there was one before the call); every
\* other entry of build/static/js is what it was before the call; so the
\* directory holds exactly the sources when it was empty before the call.
C3_SourcesCopiedRestKept ==
    Copied /\ JsFilesOnly(fs0) =>
        /\ \A n \in Qualifying(fs0, "js") :
            /\ fs[Landing(fs0, "js", n)] = File(SrcData("js", n))
            /\ DestEntry(fs0, "js", n).k = "dir" => DestEntry(fs, "js", n) = Dir
            /\ DestEntry(fs0, "js", n).k # "dir" =>
                    NestedEntry(fs, "js", n) = NestedEntry(fs0, "js", n)
        /\ \A n \in Names \ Qualifying(fs0, "js") :
            /\ DestEntry(fs, "js", n) = DestEntry(fs0, "js", n)
            /\ NestedEntry(fs, "js", n) = NestedEntry(fs0, "js", n)
        /\ Listing(fs0, DestDir("js")) = {} =>
            /\ Listing(fs, DestDir("js")) = Qualifying(fs0, "js")
            /\ \A n \in Qualifying(fs0, "js") :
                DestEntry(fs, "js", n) = File(SrcData("js", n))

\* a.js and b.js were copied over older files, next to an older f.woff2
C3_Witness ==
    /\ Copied
    /\ JsFilesOnly(fs0)
    /\ Qualifying(fs0, "js") = {"a.js", "b.js"}
    /\ DestEntry(fs0, "js", "a.js") = File(OldData)
    /\ DestEntry(fs, "js", "a.js") = File(SrcData("js", "a.js"))
    /\ DestEntry(fs, "js", "f.woff2") = File(OldData)

\* the source directory of category c is missing, or holds no qualifying entry
Skippable(f, c) ==
    \/ f[SrcDir(c)].k = "absent"
    \/ f[SrcDir(c)].k = "dir" /\ Qualifying(f, c) = {}

\* C4: a category whose source directory is missing or holds no qualifying
\* entry raises nothing, reports no copy and writes nothing under its
\* destination, and the other categories are still copied in full.
C4_MissingOrEmptyCategorySkipped ==
    \A c \in Cats : Skippable(fs0, c) =>
        /\ failedAt[1] \notin {c, LoopOf(c)}
        /\ \A n \in Names :
            /\ <<c, n>> \notin copied
            /\ DestEntry(fs, c, n) = DestEntry(fs0, c, n)
            /\ NestedEntry(fs, c, n) = NestedEntry(fs0, c, n)
        /\ Copied =>
            \A c2 \in Cats \ {c} : \A n \in Qualifying(fs0, c2) : <<c2, n>> \in copied

\* the copy returned after copying a font, with no js directory and an images
\* directory that holds only a subdirectory
C4_Witness ==
    /\ Copied
    /\ fs0[SrcDir("js")].k = "absent"
    /\ fs0[SrcDir("images")].k = "dir"
    /\ Qualifying(fs0, "images") = {}
    /\ Listing(fs0, SrcDir("images")) # {}
    /\ <<"fonts", "f.woff2">> \in copied

\* C10: only qualifying entries are copied, each under its own name and with
\* its content; a copy that returns has copied all of them; an entry that does
\* not qualify is never written to the output and never raises.
C10_ExactlyQualifyingCopied ==
    /\ \A t \in copied :
        /\ t[2] \in Qualifying(fs0, t[1])
        /\ fs[Landing(fs0, t[1], t[2])] = File(SrcData(t[1], t[2]))
    /\ Copied => copied = {t \in Cats \X Names : t[2] \in Qualifying(fs0, t[1])}
    /\ \A c \in Cats : \A n \in Names \ Qualifying(fs0, c) :
        /\ DestEntry(fs, c, n) = DestEntry(fs0, c, n)
        /\ NestedEntry(fs, c, n) = NestedEntry(fs0, c, n)
        /\ failedAt # <<LoopOf(c), n>>

\* the copy returned having copied a.js, beside a c.jsx in src/static/js
C10_Witness ==
    /\ Copied
    /\ <<"js", "a.js">> \in copied
    /\ SrcEntry(fs0, "js", "c.jsx").k = "file"

\* the copy returned having copied an image, beside a subdirectory of
\* src/static/images
C10_WitnessImages ==
    /\ Copied
    /\ \E n \in Names : <<"images", n>> \in copied
    /\ \E n \in Names : SrcEntry(fs0, "images", n).k = "dir"

\* C9: the copies touch nothing outside the destination entries; a
\* destination entry of a category changes only through a copy of that
\* category; and with the copies of all categories run in any order, the
\* copy succeeds exactly when the fixed order JS, fonts, images succeeds, with
\* the same final filesystem.
C9_AnyOrderSameResult ==
    /\ \A p \in Paths \ (DestEntryPaths \cup NestedPaths) : fs[p] = fs0[p]
    /\ \A c \in Cats, n \in Names :
        (DestEntry(fs, c, n) # DestEntry(fs0, c, n)
            \/ NestedEntry(fs, c, n) # NestedEntry(fs0, c, n))
        => <<c, n>> \in copied
    /\ pc = "par_done" => CopyStaticAssetsFS(fs0) = Ok(fs)
    /\ pc = "failed" => CopyStaticAssetsFS(fs0).err # "none"

\* all copies are done, among them a script and an image
C9_Witness ==
    /\ pc = "par_done"
    /\ \E n \in Names : <<"js", n>> \in copied
    /\ \E n \in Names : <<"images", n>> \in copied

====
